---- MODULE Spec2Model ----
(***************************************************************************)
(* Model of metadata/workflow/base.py: the construction of a BaseWorkflow  *)
(* (catalog client, "running" status, service-connection resolver,         *)
(* set_steps), one call of execute() (timer, record loop, BulkSink pass,   *)
(* final status, except/finally) and stop().                               *)
(*                                                                         *)
(* The main thread is one sequential process; pc is its position.  Every   *)
(* call into a collaborator (catalog client, Source, Step, timer) is one   *)
(* action whose outcome (a value or an exception) is chosen with \E.       *)
(***************************************************************************)
EXTENDS Naturals, Integers, Sequences, FiniteSets, TLC

\* ----------------------------------------------------------------- bounds
\* Longest step tuple set_steps() may build.
MaxSteps == 2
\* Most records the Source yields in one run.
MaxRecords == 2
\* Records the Source yields in the scenario of ten records.
ScenarioRecords == 10
\* Most reads of the run_id property that are followed.
MaxRunIdReads == 3
\* Most entries of BigquerySource.project_ids, and most distinct project ids.
MaxProjects == 3
\* Most calls of BigquerySource.close() on one source.
MaxCloses == 3
\* Most charts in LightdashSource.charts.
MaxCharts == 3

\* ------------------------------------------------------------ vocabulary
\* The Step classes a step tuple is made of (base.py:42).
StepKinds == {"Processor", "Stage", "Sink", "BulkSink"}

\* Python's None as the value of processed_record.
None == <<>>

\* A record in flight: <<k>> is the k-th record of the Source, and each
\* step that returned an output appends its position to it.
SourceRecord(k) == <<k>>

\* Failure tolerances (percent) a workflow may be configured with.
Tolerances == {0, 50}

VARIABLES
    pc,                      \* position of the main thread
    configConnection,        \* config.source.serviceConnection as given to __init__
    serviceConnection,       \* config.source.serviceConnection
    forceEntityOverwriting,  \* metadata.config.forceEntityOverwriting
    failureTolerance,        \* configured failure tolerance, percent
    getByNameCalls,          \* calls of metadata.get_by_name
    lookupResult,            \* what get_by_name did: "none" (not called), "found", "not_found", "error"
    client,                  \* the catalog client: "none", "open", "closed"
    pipelineState,           \* last PipelineState reported
    firstTerminal,           \* first of success, partial_success, failed reported ("none": none yet)
    stepChoices,             \* the step tuples the workflow's set_steps() may build
    recordLimit,             \* most records the Source has to yield
    pipelineRunId,           \* config.pipelineRunId (None: not supplied)
    run_id,                  \* self._run_id
    uuidCalls,               \* calls of uuid.uuid4()
    runIdReads,              \* reads of the run_id property
    firstRunIdRead,          \* what the first read of run_id returned
    lastRunIdRead,           \* what the latest read of run_id returned
    stepsBuilt,              \* set_steps() has run
    steps,                   \* self.steps, a sequence of StepKinds
    timerCreated,            \* RepeatedTimer instances created
    timerTriggers,           \* calls of timer.trigger() that returned
    timerStops,              \* calls of timer.stop()
    timerThread,             \* the timer's thread: "none", "waiting", "reporting", "joined"
    sourceState,             \* "idle", "active", "exhausted", "raised"
    yielded,                 \* records pulled from the Source so far
    completedRecords,        \* records whose walk through the step tuple has ended
    processed_record,        \* the local of _execute_internal
    stepIdx,                 \* index of the inner `for step in self.steps`
    noneAt,                  \* first position that returned None for the record in flight (0: none)
    ranFor,                  \* positions whose run() was invoked for the record in flight
    failedFor,               \* positions that counted the record in flight as failed
    scanned,                 \* Status.scanned per position
    filtered,                \* Status.filtered per position
    failed,                  \* Status.failures per position
    bulkRuns,                \* BulkSink.run() invocations per position
    escaped,                 \* origin of the exception that left the try body ("none": none did)
    inFlight,                \* exception pending in execute(): "none" or its origin
    tryEntered,              \* execute() has entered its try block
    stopCalls,               \* calls of stop()
    closeIdx,                \* index of the `for step in self.steps` of stop()
    closeCount,              \* step.close() invocations per position
    firstCloseRaised,        \* first position whose close() raised (0: none)
    sourceCloseCount,        \* source.close() invocations
    callerExc,               \* what the finished call gave its caller: "none" or an exception
    bigquery,                \* a BigquerySource: its fields and the position of get_database_names
    osState,                 \* the process: os.environ and the files that exist
    lightdash                \* a LightdashSource: its fields and the position of yield_dashboard_chart

vars == <<pc, configConnection, serviceConnection, forceEntityOverwriting,
          failureTolerance, stepChoices, recordLimit, pipelineRunId, run_id,
          uuidCalls, runIdReads, firstRunIdRead, lastRunIdRead,
          getByNameCalls, lookupResult, client, pipelineState, firstTerminal,
          stepsBuilt, steps, timerCreated, timerTriggers, timerStops,
          timerThread, sourceState, yielded, completedRecords,
          processed_record, stepIdx, noneAt, ranFor, failedFor, scanned,
          filtered, failed, bulkRuns, escaped, inFlight, tryEntered, stopCalls,
          closeIdx, closeCount, firstCloseRaised, sourceCloseCount, callerExc,
          bigquery, osState, lightdash>>

connectorVars == <<bigquery, osState, lightdash>>
envVars == <<stepChoices, recordLimit, connectorVars>>
runIdVars == <<pipelineRunId, run_id, uuidCalls, runIdReads, firstRunIdRead,
               lastRunIdRead>>
ctorVars == <<configConnection, serviceConnection, forceEntityOverwriting,
              failureTolerance, envVars, runIdVars,
              getByNameCalls, lookupResult, stepsBuilt, steps>>
reportVars == <<pipelineState, firstTerminal>>
timerVars == <<timerCreated, timerTriggers, timerStops, timerThread>>
loopVars == <<sourceState, yielded, completedRecords, processed_record,
              stepIdx, noneAt, ranFor, failedFor>>
statusVars == <<scanned, filtered, failed>>
stopVars == <<stopCalls, closeIdx, closeCount, firstCloseRaised, sourceCloseCount>>
workflowVars == <<pc, configConnection, serviceConnection, forceEntityOverwriting,
                  failureTolerance, stepChoices, recordLimit, runIdVars,
                  getByNameCalls, lookupResult, stepsBuilt, steps, client,
                  reportVars, timerVars, loopVars, statusVars, stopVars,
                  bulkRuns, escaped, inFlight, tryEntered, callerExc>>

Positions == 1..MaxSteps

ZeroCounts == [i \in Positions |-> 0]

\* --------------------------------------------------------------- helpers
\* The isinstance test lost: every step of the tuple takes single records.
IsRecordStepAnyKind(kind) == TRUE

\* isinstance(step, (Processor, Stage, Sink))
IsRecordStep(kind) == kind \in {"Processor", "Stage", "Sink"}

\* The step tuples set_steps() may build.
StepTuples == UNION {[1..n -> StepKinds] : n \in 0..MaxSteps}

\* The guard with its first conjunct lost: the lookup runs for a configured connection too.
ResolutionNeededForceOnly(conn, force) == ~force

\* The guard with its second conjunct lost: the lookup runs whenever the
\* connection is empty.
ResolutionNeededEmptyOnly(conn, force) == conn = "empty"

\* Guard of the resolver: `not serviceConnection and not forceEntityOverwriting`.
ResolutionNeeded(conn, force) == conn = "empty" /\ ~force

\* What metadata.get_by_name may do: return a service, return None, raise.
LookupOutcomes == {"found", "not_found", "error"}

\* The lookup without the assignment to config.source.serviceConnection.
ResolvedConnectionNotWritten(conn, outcome) == conn

\* The connection after the lookup: the service's connection when one is found.
ResolvedConnection(conn, outcome) ==
    IF outcome = "found" THEN "fromCatalog" ELSE conn

\* The resolver with the `else: raise` branch lost: it never raises.
ResolverNeverRaises(outcome) == FALSE

\* The resolver with the generic handler re-raising: every failed lookup is fatal.
ResolverRaisesOnAnyFailure(outcome) == outcome \in {"not_found", "error"}

\* Whether the resolver raises: InvalidWorkflowJSONException when no service
\* is returned; any other exception of the lookup is logged and not re-raised.
ResolverRaises(outcome) == outcome = "not_found"

\* The `timer` property without its cache: a new RepeatedTimer at every use.
TimerInstancesUncached(n) == n + 1

\* The `timer` property: one RepeatedTimer, created on first use.
TimerInstances(n) == IF n = 0 THEN 1 ELSE n

\* step.run called with the record as the Source yielded it.
StepInputOriginal(record, processed) == record

\* `step.run(processed_record)`: the step is given the output of the step
\* run before it, the Source's record for the first one.
StepInput(record, processed) == processed

\* The condition without the `is not None` test.
ShouldRunIgnoringNone(rec, kind) == IsRecordStep(kind)

\* The condition under which the inner loop calls step.run(processed_record).
ShouldRun(rec, kind) == rec # None /\ IsRecordStep(kind)

\* The record loop left after the first record.
AfterChainLeavesLoop == "bulk_sink"

\* Where the record loop goes once the step tuple has been walked.
AfterChain == "source_next"

\* The pick taking the last BulkSink of the tuple instead of the first.
LastBulkSink(s) ==
    IF \E i \in DOMAIN s : s[i] = "BulkSink"
    THEN CHOOSE i \in DOMAIN s :
             /\ s[i] = "BulkSink"
             /\ \A j \in DOMAIN s : j > i => s[j] # "BulkSink"
    ELSE 0

\* The pick without the isinstance filter: the first step of the tuple.
FirstStepAsBulkSink(s) == IF Len(s) > 0 THEN 1 ELSE 0

\* next((step for step in self.steps if isinstance(step, BulkSink)), None):
\* the position of the first BulkSink, 0 when there is none.
FirstBulkSink(s) ==
    IF \E i \in DOMAIN s : s[i] = "BulkSink"
    THEN CHOOSE i \in DOMAIN s :
             /\ s[i] = "BulkSink"
             /\ \A j \in DOMAIN s : j < i => s[j] # "BulkSink"
    ELSE 0

\* The except clause without `raise err`: the exception is swallowed.
Swallowed(exc) == "none"

\* `raise err` of the except clause: the caught exception stays in flight.
ReRaised(exc) == exc

\* stop() called after the try statement instead of in a finally clause.
AfterTryWithoutFinally(exc) == IF exc = "none" THEN "stop_timer" ELSE "raised"

\* `finally: self.stop()`: whatever is in flight, stop() runs next.
AfterTry(exc) == "stop_timer"

\* stop() with the timer stopped last, after the client and the steps.
AfterStopPhaseTimerLast(phase) ==
    CASE phase = "entry" -> "stop_client"
      [] phase = "stop_client" -> "stop_steps"
      [] phase = "stop_steps" -> "stop_timer"
      [] phase = "stop_timer" -> "stop_done"

\* stop() with the client closed before the timer is stopped.
AfterStopPhaseClientFirst(phase) ==
    CASE phase = "entry" -> "stop_client"
      [] phase = "stop_client" -> "stop_timer"
      [] phase = "stop_timer" -> "stop_steps"
      [] phase = "stop_steps" -> "stop_done"

\* The statements of stop() in their order: timer.stop(), metadata.close(),
\* the close loop.
AfterStopPhase(phase) ==
    CASE phase = "entry" -> "stop_timer"
      [] phase = "stop_timer" -> "stop_client"
      [] phase = "stop_client" -> "stop_steps"
      [] phase = "stop_steps" -> "stop_done"

\* The statement of stop() reached after `phase`; a loop over an empty
\* tuple is passed at once.
StopPhaseAfter(phase, n) ==
    LET q == AfterStopPhase(phase) IN
        IF q = "stop_steps" /\ n = 0 THEN AfterStopPhase("stop_steps") ELSE q

\* __init__ without its report of the state running.
StateAtConstructionUnreported(state) == state

\* `self.set_ingestion_pipeline_status(state=PipelineState.running)` of __init__.
StateAtConstruction(state) == "running"

\* The except clause without its report of the state failed.
StateOnExceptionKept(state) == state

\* `self.set_ingestion_pipeline_status(PipelineState.failed)` of the except clause.
StateOnException(state) == "failed"

\* str() of a run identifier: the text of the UUID, different for different
\* UUIDs and never the empty string.
Str(v) == <<"str">> \o v

\* The UUID that the n-th call of uuid.uuid4() returns.
Uuid4(n) == <<"uuid4", n>>

\* The run_id property without its cache: the identifier is made anew at
\* every read.
RunIdRegenerated(cur, cfg, n) ==
    IF cfg # None THEN Str(cfg) ELSE Str(Uuid4(n + 1))

\* The run_id property: the value of _run_id after a read, which is also the
\* value returned.
RunIdAfterRead(cur, cfg, n) ==
    IF cur = None
    THEN IF cfg # None THEN Str(cfg) ELSE Str(Uuid4(n + 1))
    ELSE cur

\* Where control goes when timer.stop() or metadata.close() raises: the two
\* calls stand outside any try, so the exception leaves stop() and, through
\* the finally clause, execute().
AfterStopFailure(phase) == "raised"

\* set_inspector without its assignments: client, engine and inspector
\* stay what they were.
InspectorNotSet(cur, project, outcome) == cur

\* BigquerySource.set_inspector: client, engine and inspector are assigned
\* from the details of the project once get_inspector_details has returned;
\* when it raises nothing is assigned.
InspectorAfterSet(cur, project, outcome) ==
    IF outcome = "ok" THEN project ELSE cur

\* get_database_names with the try around the whole loop: the first
\* project that cannot be connected to ends the iteration.
AfterInspectorErrorEndsLoop(index, n) == n

\* The except clause of get_database_names lies inside the for loop: after
\* a project that cannot be connected to comes the next entry.
AfterInspectorError(index, n) == index + 1

\* filter_by_database: whether the filter pattern excludes the project.
FilterByDatabase(pattern, project) == project \in pattern

\* The names of the environment entries BigquerySource.close() touches.
GOOGLE_CLOUD_PROJECT == "GOOGLE_CLOUD_PROJECT"
GOOGLE_CREDENTIALS == "GOOGLE_APPLICATION_CREDENTIALS"
\* An entry of os.environ that close() does not name.
OtherEntry == "HOME"

\* The kinds of service_connection.credentials.gcpConfig.
GcpConfigKinds == {"GcpCredentialsValues", "GcpCredentialsPath"}

\* close() without the test for the entry in os.environ.
ReleasesCredentialsAnyEnviron(gcpConfig, environ) ==
    gcpConfig = "GcpCredentialsValues"

\* The condition under which close() removes the credentials file and the
\* GOOGLE_CREDENTIALS entry.
ReleasesCredentials(gcpConfig, environ) ==
    /\ gcpConfig = "GcpCredentialsValues"
    /\ GOOGLE_CREDENTIALS \in environ

\* What a chart of the Lightdash chart list does to yield_dashboard_chart:
\* its request is built and yielded, the chart filter excludes it, or
\* building its url or its request raises.
ChartKinds == {"ok", "filtered", "raises"}

\* The except clause of yield_dashboard_chart: the error is logged and the
\* status is left as it was.
StatusAfterChartError(status, chart) == status

\* self.status.filter(chart.name, ...) of yield_dashboard_chart.
StatusAfterChartFiltered(status, chart) ==
    [status EXCEPT !.filtered = @ \cup {chart}]

\* self.status.scanned(chart.name), the statement after the yield.
StatusAfterChartScanned(status, chart) ==
    [status EXCEPT !.scanned = @ \cup {chart}]

\* The close loop with the try around the whole loop: the first failure ends it.
CloseNextEndsOnFailure(outcome, i, n) == IF outcome = "raise" THEN n + 1 ELSE i + 1

\* The close loop of stop(): an exception of close() is logged, the loop goes on.
CloseNext(outcome, i, n) == i + 1

\* ------------------------------------------------------------ collaborators
\* The states a run ends in.
TerminalStates == {"success", "partial_success", "failed"}

\* The first terminal state reported, once one is.
FirstTerminalAfter(first, state) ==
    IF first = "none" /\ state \in TerminalStates THEN state ELSE first

\* RepeatedTimer.stop() is synchronous: it returns only when no reporting
\* callback is running.
TimerStopBlocked(thread) == thread = "reporting"

\* ------------------------------------------------------- Step and Status
\* What step.run(record) may do: return an output, return None without an
\* error, or fail on the record.
StepOutcomes == {"ok", "skip", "error"}

\* Step.run: the output carries the step's position; a failure is caught
\* inside run and gives None.
StepRunResult(outcome, rec, i) ==
    IF outcome = "ok" THEN Append(rec, i) ELSE None

RECURSIVE SumTo(_, _)
SumTo(f, n) == IF n = 0 THEN 0 ELSE f[n] + SumTo(f, n - 1)

\* The final state from the failure ratio over all steps and the tolerance.
FinalState(nFailed, nProcessed, tolerance) ==
    IF nFailed = 0 THEN "success"
    ELSE IF nFailed * 100 <= tolerance * nProcessed THEN "partial_success"
    ELSE "failed"

\* ------------------------------------------------------------------ Init
\* No Source connector has been created.
ConnectorsIdle ==
    /\ bigquery = None
    /\ osState = None
    /\ lightdash = None

\* The fields and locals of a workflow whose __init__ has not begun.
Unstarted ==
    /\ pc = "new"
    /\ serviceConnection = configConnection
    /\ run_id = None
    /\ uuidCalls = 0
    /\ runIdReads = 0
    /\ firstRunIdRead = None
    /\ lastRunIdRead = None
    /\ getByNameCalls = 0
    /\ lookupResult = "none"
    /\ client = "none"
    /\ pipelineState = "none"
    /\ firstTerminal = "none"
    /\ stepsBuilt = FALSE
    /\ steps = <<>>
    /\ timerCreated = 0
    /\ timerTriggers = 0
    /\ timerStops = 0
    /\ timerThread = "none"
    /\ sourceState = "idle"
    /\ yielded = 0
    /\ completedRecords = 0
    /\ processed_record = None
    /\ stepIdx = 0
    /\ noneAt = 0
    /\ ranFor = {}
    /\ failedFor = {}
    /\ scanned = ZeroCounts
    /\ filtered = ZeroCounts
    /\ failed = ZeroCounts
    /\ bulkRuns = ZeroCounts
    /\ escaped = "none"
    /\ inFlight = "none"
    /\ tryEntered = FALSE
    /\ stopCalls = 0
    /\ closeIdx = 0
    /\ closeCount = ZeroCounts
    /\ firstCloseRaised = 0
    /\ sourceCloseCount = 0
    /\ callerExc = "none"

\* A workflow about to be constructed, with any step tuple and Source.
Init ==
    /\ configConnection \in {"empty", "configured"}
    /\ forceEntityOverwriting \in BOOLEAN
    /\ failureTolerance \in Tolerances
    /\ stepChoices = StepTuples
    /\ recordLimit = MaxRecords
    /\ pipelineRunId = None
    /\ Unstarted
    /\ ConnectorsIdle

\* ---------------------------------------------------------- construction
\* __init__ up to the resolver: the catalog client is created and the state
\* running is reported.
Construct ==
    /\ pc = "new"
    /\ client' = "open"
    /\ pipelineState' = StateAtConstruction(pipelineState)
    /\ firstTerminal' = firstTerminal
    /\ pc' = "resolve"
    /\ UNCHANGED <<ctorVars, timerVars, loopVars, statusVars, stopVars,
                   bulkRuns, escaped, inFlight, tryEntered, callerExc>>

\* _retrieve_service_connection_if_needed, then back in __init__.
RetrieveServiceConnectionIfNeeded ==
    /\ pc = "resolve"
    /\ IF ResolutionNeeded(serviceConnection, forceEntityOverwriting)
       THEN \E outcome \in LookupOutcomes :
               /\ getByNameCalls' = getByNameCalls + 1
               /\ lookupResult' = outcome
               /\ serviceConnection' = ResolvedConnection(serviceConnection, outcome)
               /\ IF ResolverRaises(outcome)
                  THEN /\ pc' = "ctor_raised"
                       /\ callerExc' = "InvalidWorkflowJSONException"
                  ELSE /\ pc' = "set_steps"
                       /\ callerExc' = callerExc
       ELSE /\ pc' = "set_steps"
            /\ UNCHANGED <<getByNameCalls, lookupResult, serviceConnection, callerExc>>
    /\ UNCHANGED <<configConnection, forceEntityOverwriting, failureTolerance,
                   envVars, runIdVars, client, reportVars, stepsBuilt, steps,
                   timerVars, loopVars, statusVars, stopVars, bulkRuns, escaped,
                   inFlight, tryEntered>>

\* set_steps(): the Source and the step tuple are built.
SetSteps ==
    /\ pc = "set_steps"
    /\ \E s \in stepChoices : steps' = s
    /\ stepsBuilt' = TRUE
    /\ pc' = "constructed"
    /\ UNCHANGED <<configConnection, serviceConnection, forceEntityOverwriting,
                   failureTolerance, envVars, runIdVars, getByNameCalls,
                   lookupResult, client, reportVars, timerVars, loopVars,
                   statusVars, stopVars, bulkRuns, escaped, inFlight,
                   tryEntered, callerExc>>

\* --------------------------------------------------------------- execute
\* execute(), `self.timer.trigger()`: outside the try block.  The timer
\* property creates the RepeatedTimer; an exception here leaves execute().
TimerTrigger ==
    /\ pc = "constructed"
    /\ timerCreated' = TimerInstances(timerCreated)
    /\ \E outcome \in {"ok", "raise"} :
          IF outcome = "ok"
          THEN /\ timerTriggers' = timerTriggers + 1
               /\ timerThread' = "waiting"
               /\ tryEntered' = TRUE
               /\ sourceState' = "active"
               /\ pc' = "source_next"
               /\ callerExc' = callerExc
          ELSE /\ pc' = "raised"
               /\ callerExc' = "TimerStart"
               /\ UNCHANGED <<timerTriggers, timerThread, tryEntered, sourceState>>
    /\ UNCHANGED <<ctorVars, client, reportVars, timerStops, yielded,
                   completedRecords, processed_record, stepIdx, noneAt, ranFor, failedFor,
                   statusVars, stopVars, bulkRuns, escaped, inFlight>>

\* `for record in self.source.run()`: the Source yields the next record, is
\* exhausted, or raises.
SourceNext ==
    /\ pc = "source_next"
    /\ \/ /\ yielded < recordLimit
          /\ yielded' = yielded + 1
          /\ processed_record' = SourceRecord(yielded + 1)
          /\ noneAt' = 0
          /\ ranFor' = {}
          /\ failedFor' = {}
          /\ IF Len(steps) = 0
             THEN /\ pc' = AfterChain
                  /\ stepIdx' = 0
                  /\ completedRecords' = completedRecords + 1
             ELSE /\ pc' = "steps"
                  /\ stepIdx' = 1
                  /\ completedRecords' = completedRecords
          /\ UNCHANGED <<sourceState, escaped, inFlight>>
       \/ /\ sourceState' = "exhausted"
          /\ pc' = "bulk_sink"
          /\ processed_record' = None
          /\ noneAt' = 0
          /\ ranFor' = {}
          /\ failedFor' = {}
          /\ UNCHANGED <<yielded, completedRecords, stepIdx, escaped, inFlight>>
       \/ /\ sourceState' = "raised"
          /\ escaped' = "Source"
          /\ inFlight' = "Source"
          /\ pc' = "except"
          /\ processed_record' = None
          /\ noneAt' = 0
          /\ ranFor' = {}
          /\ failedFor' = {}
          /\ UNCHANGED <<yielded, completedRecords, stepIdx>>
    /\ UNCHANGED <<ctorVars, client, reportVars, timerVars, statusVars,
                   stopVars, bulkRuns, tryEntered, callerExc>>

\* The inner loop moves to the next step, or back to the Source after the last.
Advance ==
    IF stepIdx < Len(steps)
    THEN /\ pc' = "steps"
         /\ stepIdx' = stepIdx + 1
         /\ completedRecords' = completedRecords
    ELSE /\ pc' = AfterChain
         /\ stepIdx' = 0
         /\ completedRecords' = completedRecords + 1

\* One iteration of `for step in self.steps` in which step.run is called.
RunStep ==
    /\ pc = "steps"
    /\ ShouldRun(processed_record, steps[stepIdx])
    /\ \E outcome \in StepOutcomes :
          /\ processed_record' =
                 StepRunResult(outcome,
                               StepInput(SourceRecord(yielded), processed_record),
                               stepIdx)
          /\ scanned' = IF outcome = "ok"
                        THEN [scanned EXCEPT ![stepIdx] = @ + 1] ELSE scanned
          /\ filtered' = IF outcome = "skip"
                         THEN [filtered EXCEPT ![stepIdx] = @ + 1] ELSE filtered
          /\ failed' = IF outcome = "error"
                       THEN [failed EXCEPT ![stepIdx] = @ + 1] ELSE failed
          /\ failedFor' = IF outcome = "error"
                          THEN failedFor \cup {stepIdx} ELSE failedFor
          /\ noneAt' = IF noneAt = 0 /\ outcome # "ok" THEN stepIdx ELSE noneAt
    /\ ranFor' = ranFor \cup {stepIdx}
    /\ Advance
    /\ UNCHANGED <<ctorVars, client, reportVars, timerVars, sourceState,
                   yielded, stopVars, bulkRuns, escaped, inFlight, tryEntered, callerExc>>

\* One iteration of `for step in self.steps` in which the condition is false.
SkipStep ==
    /\ pc = "steps"
    /\ ~ShouldRun(processed_record, steps[stepIdx])
    /\ Advance
    /\ UNCHANGED <<ctorVars, client, reportVars, timerVars, sourceState,
                   yielded, processed_record, noneAt, ranFor, failedFor,
                   statusVars, stopVars, bulkRuns, escaped, inFlight, tryEntered,
                   callerExc>>

\* After the loop: the first BulkSink of the tuple, if any, is run.
BulkSinkPass ==
    /\ pc = "bulk_sink"
    /\ LET b == FirstBulkSink(steps) IN
          IF b = 0
          THEN /\ pc' = "update_status"
               /\ UNCHANGED <<bulkRuns, escaped, inFlight>>
          ELSE /\ bulkRuns' = [bulkRuns EXCEPT ![b] = @ + 1]
               /\ \E outcome \in {"ok", "raise"} :
                     IF outcome = "ok"
                     THEN pc' = "update_status" /\ UNCHANGED <<escaped, inFlight>>
                     ELSE /\ pc' = "except"
                          /\ escaped' = "BulkSink"
                          /\ inFlight' = "BulkSink"
    /\ UNCHANGED <<ctorVars, client, reportVars, timerVars, loopVars,
                   statusVars, stopVars, tryEntered, callerExc>>

\* update_ingestion_status_at_end(): reports the computed final state, or raises.
UpdateIngestionStatusAtEnd ==
    /\ pc = "update_status"
    /\ \E outcome \in {"ok", "raise"} :
          IF outcome = "ok"
          THEN /\ pipelineState' =
                     FinalState(SumTo(failed, MaxSteps),
                                SumTo(scanned, MaxSteps) + SumTo(filtered, MaxSteps)
                                    + SumTo(failed, MaxSteps),
                                failureTolerance)
               /\ firstTerminal' = FirstTerminalAfter(firstTerminal, pipelineState')
               /\ pc' = "finally"
               /\ UNCHANGED <<escaped, inFlight>>
          ELSE /\ pc' = "except"
               /\ escaped' = "StatusUpdate"
               /\ inFlight' = "StatusUpdate"
               /\ UNCHANGED reportVars
    /\ UNCHANGED <<ctorVars, client, timerVars, loopVars, statusVars, stopVars,
                   bulkRuns, tryEntered, callerExc>>

\* `except Exception as err`: the state failed is reported and err re-raised.
ExceptHandler ==
    /\ pc = "except"
    /\ pipelineState' = StateOnException(pipelineState)
    /\ firstTerminal' = FirstTerminalAfter(firstTerminal, pipelineState')
    /\ inFlight' = ReRaised(inFlight)
    /\ pc' = "finally"
    /\ UNCHANGED <<ctorVars, client, timerVars, loopVars, statusVars, stopVars,
                   bulkRuns, escaped, tryEntered, callerExc>>

\* The end of the try statement: the finally clause calls stop().
Finally ==
    /\ pc = "finally"
    /\ LET target == AfterTry(inFlight)
           first == StopPhaseAfter("entry", Len(steps)) IN
          /\ pc' = IF target = "stop_timer" THEN first ELSE target
          /\ closeIdx' = IF pc' = "stop_steps" THEN 1 ELSE closeIdx
          /\ stopCalls' = IF target = "stop_timer" THEN stopCalls + 1 ELSE stopCalls
          /\ callerExc' = IF target = "raised" THEN inFlight ELSE callerExc
    /\ UNCHANGED <<ctorVars, client, reportVars, timerVars, loopVars,
                   statusVars, closeCount, firstCloseRaised,
                   sourceCloseCount, bulkRuns, escaped, inFlight, tryEntered>>

\* ------------------------------------------------------------------ stop
\* stop(), `self.timer.stop()`.
TimerStop ==
    /\ pc = "stop_timer"
    /\ ~TimerStopBlocked(timerThread)
    /\ timerCreated' = TimerInstances(timerCreated)
    /\ timerStops' = timerStops + 1
    /\ timerThread' = "joined"
    /\ pc' = StopPhaseAfter("stop_timer", Len(steps))
    /\ closeIdx' = IF pc' = "stop_steps" THEN 1 ELSE closeIdx
    /\ UNCHANGED <<ctorVars, client, reportVars, timerTriggers, loopVars,
                   statusVars, stopCalls, closeCount, firstCloseRaised,
                   sourceCloseCount, bulkRuns, escaped, inFlight, tryEntered,
                   callerExc>>

\* stop(), `self.metadata.close()`, then the close loop begins.
MetadataClose ==
    /\ pc = "stop_client"
    /\ client' = "closed"
    /\ pc' = StopPhaseAfter("stop_client", Len(steps))
    /\ closeIdx' = IF pc' = "stop_steps" THEN 1 ELSE closeIdx
    /\ UNCHANGED <<ctorVars, reportVars, timerVars, loopVars, statusVars,
                   stopCalls, closeCount, firstCloseRaised, sourceCloseCount,
                   bulkRuns, escaped, inFlight, tryEntered, callerExc>>

\* One iteration of the close loop: step.close() returns or raises.
CloseStep ==
    /\ pc = "stop_steps"
    /\ closeCount' = [closeCount EXCEPT ![closeIdx] = @ + 1]
    /\ \E outcome \in {"ok", "raise"} :
          /\ firstCloseRaised' = IF outcome = "raise" /\ firstCloseRaised = 0
                                 THEN closeIdx ELSE firstCloseRaised
          /\ LET next == CloseNext(outcome, closeIdx, Len(steps)) IN
                IF next > Len(steps)
                THEN pc' = AfterStopPhase("stop_steps") /\ closeIdx' = 0
                ELSE pc' = "stop_steps" /\ closeIdx' = next
    /\ UNCHANGED <<ctorVars, client, reportVars, timerVars, loopVars,
                   statusVars, stopCalls, sourceCloseCount, bulkRuns, escaped, inFlight,
                   tryEntered, callerExc>>

\* stop() returns into the finally clause; execute() returns, or the
\* exception in flight goes on to the caller.
Return ==
    /\ pc = "stop_done"
    /\ pc' = IF inFlight = "none" THEN "returned" ELSE "raised"
    /\ callerExc' = inFlight
    /\ UNCHANGED <<ctorVars, client, reportVars, timerVars, loopVars,
                   statusVars, stopVars, bulkRuns, escaped, inFlight, tryEntered>>

Next ==
    \/ Construct
    \/ RetrieveServiceConnectionIfNeeded
    \/ SetSteps
    \/ TimerTrigger
    \/ SourceNext
    \/ RunStep
    \/ SkipStep
    \/ BulkSinkPass
    \/ UpdateIngestionStatusAtEnd
    \/ ExceptHandler
    \/ Finally
    \/ TimerStop
    \/ MetadataClose
    \/ CloseStep
    \/ Return

Spec == Init /\ [][Next]_vars

\* ------------------------------------------------------- the timer thread
\* The timer thread's interval has passed: the reporting callback starts and
\* reads the status of the Source and of the steps.
TimerTick ==
    /\ timerThread = "waiting"
    /\ timerThread' = "reporting"
    /\ UNCHANGED <<pc, ctorVars, client, reportVars, timerCreated, timerTriggers,
                   timerStops, loopVars, statusVars, stopVars, bulkRuns,
                   escaped, inFlight, tryEntered, callerExc>>

\* The reporting callback returns and the thread waits for the next interval.
TimerReport ==
    /\ timerThread = "reporting"
    /\ timerThread' = "waiting"
    /\ UNCHANGED <<pc, ctorVars, client, reportVars, timerCreated, timerTriggers,
                   timerStops, loopVars, statusVars, stopVars, bulkRuns,
                   escaped, inFlight, tryEntered, callerExc>>

\* A workflow with a configured connection, any step tuple and Source.
InitConfigured ==
    /\ configConnection = "configured"
    /\ forceEntityOverwriting = FALSE
    /\ failureTolerance \in Tolerances
    /\ stepChoices = StepTuples
    /\ recordLimit = MaxRecords
    /\ pipelineRunId = None
    /\ Unstarted
    /\ ConnectorsIdle

\* execute() and stop() of a workflow built from a configured connection.
SpecRun == InitConfigured /\ [][Next]_vars

NextTimer ==
    \/ Construct
    \/ RetrieveServiceConnectionIfNeeded
    \/ SetSteps
    \/ TimerTrigger
    \/ SourceNext
    \/ RunStep
    \/ SkipStep
    \/ BulkSinkPass
    \/ UpdateIngestionStatusAtEnd
    \/ ExceptHandler
    \/ Finally
    \/ TimerStop
    \/ MetadataClose
    \/ CloseStep
    \/ Return
    \/ TimerTick
    \/ TimerReport

\* The main thread interleaved with the timer thread.
SpecTimer == InitConfigured /\ [][NextTimer]_vars

\* ------------------------------------------------ failures inside stop()
\* stop(), `self.timer.stop()` raises.
TimerStopRaises ==
    /\ pc = "stop_timer"
    /\ ~TimerStopBlocked(timerThread)
    /\ timerCreated' = TimerInstances(timerCreated)
    /\ timerStops' = timerStops + 1
    /\ pc' = AfterStopFailure("stop_timer")
    /\ inFlight' = "TimerStop"
    /\ callerExc' = "TimerStop"
    /\ UNCHANGED <<ctorVars, client, reportVars, timerTriggers, timerThread,
                   loopVars, statusVars, stopVars, bulkRuns, escaped, tryEntered>>

\* stop(), `self.metadata.close()` raises, with the client closed or not.
MetadataCloseRaises ==
    /\ pc = "stop_client"
    /\ client' \in {"open", "closed"}
    /\ pc' = AfterStopFailure("stop_client")
    /\ inFlight' = "MetadataClose"
    /\ callerExc' = "MetadataClose"
    /\ UNCHANGED <<ctorVars, reportVars, timerVars, loopVars, statusVars,
                   stopVars, bulkRuns, escaped, tryEntered>>

NextStopFaults ==
    \/ Construct
    \/ RetrieveServiceConnectionIfNeeded
    \/ SetSteps
    \/ TimerTrigger
    \/ SourceNext
    \/ RunStep
    \/ SkipStep
    \/ BulkSinkPass
    \/ UpdateIngestionStatusAtEnd
    \/ ExceptHandler
    \/ Finally
    \/ TimerStop
    \/ MetadataClose
    \/ CloseStep
    \/ Return
    \/ TimerStopRaises
    \/ MetadataCloseRaises

\* A workflow whose timer.stop() and metadata.close() may raise.
SpecStopFaults == InitConfigured /\ [][NextStopFaults]_vars

\* ------------------------------------------- BigquerySource.get_database_names
\* No workflow is constructed: the connector's method is driven directly.
WorkflowIdle ==
    /\ configConnection = "configured"
    /\ forceEntityOverwriting = FALSE
    /\ failureTolerance = 0
    /\ stepChoices = {<<>>}
    /\ recordLimit = 0
    /\ pipelineRunId = None
    /\ Unstarted

\* The lists auth.default() may give as project_ids.
ProjectLists == UNION {[1..n -> 1..MaxProjects] : n \in 0..MaxProjects}

\* A BigquerySource after __init__: no inspector yet, the generator of
\* get_database_names created and not yet advanced.
InitBigquery ==
    /\ WorkflowIdle
    /\ osState = None
    /\ lightdash = None
    /\ \E ids \in ProjectLists, pattern \in SUBSET (1..MaxProjects) :
          bigquery = [project_ids |-> ids,
                      databaseFilterPattern |-> pattern,
                      at |-> "loop",
                      index |-> 0,
                      inspector |-> 0,
                      events |-> <<>>,
                      setInspectorCalls |-> <<>>]

\* One iteration of `for project_id in self.project_ids`, up to the yield
\* or to the end of the iteration.
NextProject ==
    /\ bigquery # None
    /\ bigquery.at = "loop"
    /\ bigquery.index < Len(bigquery.project_ids)
    /\ LET project_id == bigquery.project_ids[bigquery.index + 1] IN
          IF FilterByDatabase(bigquery.databaseFilterPattern, project_id)
          THEN bigquery' = [bigquery EXCEPT
                               !.index = @ + 1,
                               !.events = Append(@, <<project_id, "filtered">>)]
          ELSE \E outcome \in {"ok", "raise"} :
                  bigquery' = [bigquery EXCEPT
                      !.setInspectorCalls = Append(@, project_id),
                      !.inspector = InspectorAfterSet(@, project_id, outcome),
                      !.index = IF outcome = "ok" THEN @ + 1
                                ELSE AfterInspectorError(@, Len(bigquery.project_ids)),
                      !.events = Append(@, <<project_id,
                                   IF outcome = "ok" THEN "yielded" ELSE "skipped">>),
                      !.at = IF outcome = "ok" THEN "consumer" ELSE "loop"]
    /\ UNCHANGED <<workflowVars, osState, lightdash>>

\* The consumer is done with the project yielded and asks for the next one.
ConsumerResumes ==
    /\ bigquery # None
    /\ bigquery.at = "consumer"
    /\ bigquery' = [bigquery EXCEPT !.at = "loop"]
    /\ UNCHANGED <<workflowVars, osState, lightdash>>

\* The for loop is over: the generator returns.
ProjectsExhausted ==
    /\ bigquery # None
    /\ bigquery.at = "loop"
    /\ bigquery.index >= Len(bigquery.project_ids)
    /\ bigquery' = [bigquery EXCEPT !.at = "done"]
    /\ UNCHANGED <<workflowVars, osState, lightdash>>

NextBigquery ==
    \/ NextProject
    \/ ConsumerResumes
    \/ ProjectsExhausted

SpecBigquery == InitBigquery /\ [][NextBigquery]_vars

\* ------------------------------------------------------ BigquerySource.close
\* A BigquerySource after __init__ and the set-up of its connection:
\* temp_credentials is None, and the file GOOGLE_CREDENTIALS names exists
\* when the entry does (the temporary file written for credentials given by
\* value, the user's own file for credentials given by path).
InitBigqueryClose ==
    /\ WorkflowIdle
    /\ lightdash = None
    /\ \E kind \in GcpConfigKinds,
          env \in SUBSET {GOOGLE_CLOUD_PROJECT, GOOGLE_CREDENTIALS, OtherEntry} :
          /\ osState = [environ |-> env,
                        credentialsFile |-> GOOGLE_CREDENTIALS \in env]
          /\ bigquery = [gcpConfig |-> kind,
                         temp_credentials |-> None,
                         at |-> "idle",
                         closeCalls |-> 0,
                         closeRaised |-> FALSE,
                         atInit |-> [environ |-> env,
                                     credentialsFile |-> GOOGLE_CREDENTIALS \in env],
                         afterFirstClose |-> None]

\* What a close() that is over leaves in the source: the state of the
\* process after the first close() is kept for comparison.
CloseOver(raised) ==
    [bigquery EXCEPT !.at = "idle",
                     !.closeRaised = @ \/ raised,
                     !.afterFirstClose =
                         IF bigquery.closeCalls = 1 THEN osState' ELSE @]

\* close() is called: super().close(); temp_credentials is None in every
\* source (__init__ holds its only assignment), so os.unlink is not reached.
BigqueryClose ==
    /\ bigquery # None
    /\ bigquery.at = "idle"
    /\ bigquery.closeCalls < MaxCloses
    /\ ~bigquery.closeRaised
    /\ bigquery.temp_credentials = None
    /\ bigquery' = [bigquery EXCEPT !.closeCalls = @ + 1,
                                    !.at = "pop_project"]
    /\ UNCHANGED <<workflowVars, osState, lightdash>>

\* os.environ.pop("GOOGLE_CLOUD_PROJECT", ""): no error when absent.
ClosePopProject ==
    /\ bigquery # None
    /\ bigquery.at = "pop_project"
    /\ osState' = [osState EXCEPT !.environ = @ \ {GOOGLE_CLOUD_PROJECT}]
    /\ bigquery' = [bigquery EXCEPT !.at = "credentials"]
    /\ UNCHANGED <<workflowVars, lightdash>>

\* The guard on gcpConfig and os.environ; under it os.environ[...] (KeyError
\* when the entry is absent) and os.remove (an error when the file is not
\* there). Without the guard close() returns.
CloseRemoveFile ==
    /\ bigquery # None
    /\ bigquery.at = "credentials"
    /\ IF ReleasesCredentials(bigquery.gcpConfig, osState.environ)
       THEN IF GOOGLE_CREDENTIALS \in osState.environ /\ osState.credentialsFile
            THEN /\ osState' = [osState EXCEPT !.credentialsFile = FALSE]
                 /\ bigquery' = [bigquery EXCEPT !.at = "del_entry"]
            ELSE /\ UNCHANGED osState
                 /\ bigquery' = CloseOver(TRUE)
       ELSE /\ UNCHANGED osState
            /\ bigquery' = CloseOver(FALSE)
    /\ UNCHANGED <<workflowVars, lightdash>>

\* del os.environ[GOOGLE_CREDENTIALS], and close() returns.
CloseDelEntry ==
    /\ bigquery # None
    /\ bigquery.at = "del_entry"
    /\ osState' = [osState EXCEPT !.environ = @ \ {GOOGLE_CREDENTIALS}]
    /\ bigquery' = CloseOver(FALSE)
    /\ UNCHANGED <<workflowVars, lightdash>>

NextBigqueryClose ==
    \/ BigqueryClose
    \/ ClosePopProject
    \/ CloseRemoveFile
    \/ CloseDelEntry

SpecBigqueryClose == InitBigqueryClose /\ [][NextBigqueryClose]_vars

\* ------------------------------------------ LightdashSource.yield_dashboard_chart
\* The chart lists prepare() may have stored in self.charts.
ChartLists == UNION {[1..n -> ChartKinds] : n \in 0..MaxCharts}

\* A LightdashSource after prepare(), with the generator of
\* yield_dashboard_chart created and not yet advanced. A chart is named by
\* its place in the list.
InitLightdash ==
    /\ WorkflowIdle
    /\ bigquery = None
    /\ osState = None
    /\ \E charts \in ChartLists :
          lightdash = [charts |-> charts,
                       at |-> "loop",
                       index |-> 0,
                       requests |-> {},
                       status |-> [scanned |-> {}, filtered |-> {}, failed |-> {}]]

\* One iteration of `for chart in charts`, up to the yield, the continue or
\* the end of the except clause.
NextChart ==
    /\ lightdash # None
    /\ lightdash.at = "loop"
    /\ lightdash.index < Len(lightdash.charts)
    /\ LET chart == lightdash.index + 1
           kind == lightdash.charts[chart]
       IN  lightdash' =
             CASE kind = "filtered" ->
                    [lightdash EXCEPT
                        !.index = chart,
                        !.status = StatusAfterChartFiltered(@, chart)]
               [] kind = "ok" ->
                    [lightdash EXCEPT
                        !.requests = @ \cup {chart},
                        !.at = "consumer"]
               [] kind = "raises" ->
                    [lightdash EXCEPT
                        !.index = chart,
                        !.status = StatusAfterChartError(@, chart)]
    /\ UNCHANGED <<workflowVars, bigquery, osState>>

\* The consumer asks for the next request: the generator resumes after the
\* yield with self.status.scanned(chart.name).
ChartConsumerResumes ==
    /\ lightdash # None
    /\ lightdash.at = "consumer"
    /\ lightdash' = [lightdash EXCEPT
                        !.index = @ + 1,
                        !.status = StatusAfterChartScanned(@, lightdash.index + 1),
                        !.at = "loop"]
    /\ UNCHANGED <<workflowVars, bigquery, osState>>

\* The for loop is over: the generator returns.
ChartsExhausted ==
    /\ lightdash # None
    /\ lightdash.at = "loop"
    /\ lightdash.index >= Len(lightdash.charts)
    /\ lightdash' = [lightdash EXCEPT !.at = "done"]
    /\ UNCHANGED <<workflowVars, bigquery, osState>>

NextLightdash ==
    \/ NextChart
    \/ ChartConsumerResumes
    \/ ChartsExhausted

SpecLightdash == InitLightdash /\ [][NextLightdash]_vars

\* ------------------------------------------------------------ the resolver
\* A workflow of a Processor and a BulkSink, with the connection empty or
\* configured and forceEntityOverwriting set or not.
InitResolver ==
    /\ configConnection \in {"empty", "configured"}
    /\ forceEntityOverwriting \in BOOLEAN
    /\ failureTolerance = 0
    /\ stepChoices = {<<"Processor", "BulkSink">>}
    /\ recordLimit = MaxRecords
    /\ pipelineRunId = None
    /\ Unstarted
    /\ ConnectorsIdle

\* Construction with every configuration of the resolver, then a run.
SpecResolver == InitResolver /\ [][Next]_vars

\* ------------------------------------------------------ the run identifier
\* A read of the run_id property, at any moment of the workflow's life.
ReadRunId ==
    /\ pc # "new"
    /\ runIdReads < MaxRunIdReads
    /\ LET r == RunIdAfterRead(run_id, pipelineRunId, uuidCalls) IN
          /\ run_id' = r
          /\ uuidCalls' = IF r = Str(Uuid4(uuidCalls + 1))
                          THEN uuidCalls + 1 ELSE uuidCalls
          /\ lastRunIdRead' = r
          /\ firstRunIdRead' = IF runIdReads = 0 THEN r ELSE firstRunIdRead
    /\ runIdReads' = runIdReads + 1
    /\ UNCHANGED <<pc, configConnection, serviceConnection,
                   forceEntityOverwriting, failureTolerance, getByNameCalls,
                   lookupResult, stepsBuilt, steps, envVars, pipelineRunId,
                   client, reportVars, timerVars, loopVars, statusVars,
                   stopVars, bulkRuns, escaped, inFlight, tryEntered, callerExc>>

\* The run identifiers a configuration may supply.
ConfigRunIds == {<<"config", 1>>}

\* A workflow of a Processor and a BulkSink whose configuration supplies a
\* run identifier or none.
InitRunId ==
    /\ configConnection = "configured"
    /\ forceEntityOverwriting = FALSE
    /\ failureTolerance = 0
    /\ stepChoices = {<<"Processor", "BulkSink">>}
    /\ recordLimit = 1
    /\ pipelineRunId \in ConfigRunIds \cup {None}
    /\ Unstarted
    /\ ConnectorsIdle

NextRunId ==
    \/ Construct
    \/ RetrieveServiceConnectionIfNeeded
    \/ SetSteps
    \/ TimerTrigger
    \/ SourceNext
    \/ RunStep
    \/ SkipStep
    \/ BulkSinkPass
    \/ UpdateIngestionStatusAtEnd
    \/ ExceptHandler
    \/ Finally
    \/ TimerStop
    \/ MetadataClose
    \/ CloseStep
    \/ Return
    \/ ReadRunId

\* The workflow with reads of run_id at any moment.
SpecRunId == InitRunId /\ [][NextRunId]_vars

\* ------------------------------------------------- the ten-record scenario
\* A workflow of a Processor, alone or before a Sink, with a configured
\* connection, a failure tolerance of 10% and a Source of up to
\* ScenarioRecords records.
InitScenario ==
    /\ configConnection = "configured"
    /\ forceEntityOverwriting = FALSE
    /\ failureTolerance = 10
    /\ stepChoices = {<<"Processor">>, <<"Processor", "Sink">>}
    /\ recordLimit = ScenarioRecords
    /\ pipelineRunId = None
    /\ Unstarted
    /\ ConnectorsIdle

SpecScenario == InitScenario /\ [][Next]_vars

\* ---------------------------------------------------------------- claims
Finished == pc \in {"returned", "raised"}
InStop == pc \in {"stop_timer", "stop_client", "stop_steps", "stop_done"}
StopCompleted == stopCalls = 1 /\ timerStops = 1 /\ client = "closed" /\ ~InStop
TryOrigins == {"Source", "BulkSink", "StatusUpdate"}

\* C1 as stated: every finished call of execute() has run stop(), wherever
\* an exception was raised, the timer start included.
C1_StopBeforeEveryReturn == Finished => stopCalls >= 1

\* C1 as amended: a finished call of execute() that entered its try block
\* (timer.trigger() returned) has run stop() exactly once and to its end,
\* whether it returned or raised; a call that timer.trigger() ended has not
\* run stop() at all and gives the caller the timer's exception.
C1_StopAfterTryEntered ==
    /\ (Finished /\ tryEntered) => StopCompleted
    /\ (Finished /\ ~tryEntered) => stopCalls = 0 /\ callerExc = "TimerStart"
    /\ (tryEntered /\ ~Finished) => pc # "ctor_raised" /\ stopCalls <= 1

\* C1 witness: the Source raised, stop() ran, the exception reached the caller.
C1_Witness ==
    pc = "raised" /\ tryEntered /\ escaped = "Source" /\ stopCalls = 1
        /\ client = "closed"

\* C2: when an exception leaves _execute_internal() or the final status
\* update, the state is failed before stop() starts and stays failed, stop()
\* runs, and the call ends by raising that same exception: it never returns
\* normally and the state is never left running or success.
C2_FailedThenStopThenReraise ==
    /\ (escaped # "none" /\ (InStop \/ Finished)) => pipelineState = "failed"
    /\ (escaped # "none" /\ Finished) =>
           pc = "raised" /\ callerExc = escaped /\ StopCompleted
    /\ (escaped # "none" /\ ~Finished) => callerExc = "none"
    /\ escaped \in TryOrigins \cup {"none"}

\* C2 witness: the BulkSink raised and the call ended raising it, state failed.
C2_Witness ==
    pc = "raised" /\ escaped = "BulkSink" /\ callerExc = "BulkSink"
        /\ pipelineState = "failed" /\ stopCalls = 1

\* C3: once the step at position i has returned None for the record in
\* flight, no step at a position j > i is run for it or counts it as failed,
\* and the loop is still running (no exception, next stop is the Source).
C3_NoneShortCircuits ==
    noneAt # 0 =>
        /\ \A j \in ranFor : j <= noneAt
        /\ \A j \in failedFor : j <= noneAt
        /\ processed_record = None
        /\ pc \in {"steps", "source_next"}
        /\ escaped = "none" /\ inFlight = "none"

\* C3 witness: position 1 returned None, a record step follows it in the
\* tuple, and the chain has been walked to its end without running it.
C3_Witness ==
    /\ noneAt = 1 /\ pc = "source_next" /\ ranFor = {1}
    /\ Len(steps) = 2 /\ IsRecordStep(steps[2])

\* C4: a failure of a step's run on one record is a failure entry of that
\* step and nothing else: no exception is in flight because of it, the loop
\* goes on with the Source, and the loop is only left when the Source is
\* exhausted or raises.
C4_StepFailureIsLocal ==
    /\ \A j \in failedFor : j \in ranFor /\ failed[j] >= 1
    /\ failedFor # {} =>
           pc \in {"steps", "source_next"} /\ inFlight = "none"
               /\ sourceState = "active"
    /\ pc \in {"bulk_sink", "update_status"} => sourceState = "exhausted"
    /\ escaped = "Source" <=> sourceState = "raised"

\* C4 witness: the first record failed in step 1 and the second record has
\* since been run through step 1.
C4_Witness ==
    yielded = 2 /\ failed[1] = 1 /\ failedFor = {} /\ 1 \in ranFor

\* C5: in a call of stop() every step of the tuple is closed exactly once,
\* whichever close() calls raise, and a close() failure raises nothing: the
\* call ends with exactly the exception that left the try body, if any.
C5_EveryStepClosedOnce ==
    /\ \A i \in Positions : closeCount[i] <= 1
    /\ (pc = "stop_done" \/ (Finished /\ tryEntered)) =>
           \A i \in Positions : closeCount[i] = (IF i <= Len(steps) THEN 1 ELSE 0)
    /\ pc = "stop_steps" =>
           \A i \in Positions : closeCount[i] = (IF i < closeIdx THEN 1 ELSE 0)
    /\ (Finished /\ tryEntered) => callerExc = escaped
    /\ firstCloseRaised # 0 => closeCount[firstCloseRaised] = 1

\* C5 witness: close() of step 1 raised, step 2 was closed all the same and
\* execute() returned normally.
C5_Witness ==
    pc = "returned" /\ firstCloseRaised = 1 /\ Len(steps) = 2
        /\ closeCount[2] = 1

\* C6: after execute() has returned or raised, close() has been invoked
\* exactly once on the Source.
C6_SourceClosedOnce == (Finished /\ tryEntered) => sourceCloseCount = 1

\* C7: BulkSink.run() is invoked at most once, on a BulkSink, and only when
\* the Source is exhausted and the record loop is over; with no BulkSink in
\* the tuple nothing is run as one and no exception comes from that pass.
C7_BulkSinkOnceAfterExhaustion ==
    /\ SumTo(bulkRuns, MaxSteps) <= 1
    /\ \A i \in Positions :
           bulkRuns[i] > 0 =>
               /\ i <= Len(steps) /\ steps[i] = "BulkSink"
               /\ sourceState = "exhausted" /\ yielded <= MaxRecords
               /\ pc \notin {"source_next", "steps", "bulk_sink"}
               /\ stepIdx = 0 /\ processed_record = None
    /\ (\A i \in DOMAIN steps : steps[i] # "BulkSink") =>
           /\ SumTo(bulkRuns, MaxSteps) = 0
           /\ escaped # "BulkSink"
    /\ escaped = "BulkSink" => SumTo(bulkRuns, MaxSteps) = 1

\* C7 witness: two records went down the chain, then the BulkSink ran and
\* execute() returned.
C7_Witness ==
    pc = "returned" /\ yielded = 2 /\ SumTo(bulkRuns, MaxSteps) = 1

\* C8: with a connection configured at construction the catalog is never
\* asked for the service and the connection stays the configured one,
\* whatever forceEntityOverwriting is.
C8_ConfiguredConnectionKept ==
    configConnection = "configured" =>
        /\ getByNameCalls = 0
        /\ lookupResult = "none"
        /\ serviceConnection = "configured"
        /\ pc # "ctor_raised"

\* C8 witness: a configured connection, forceEntityOverwriting not set, and
\* the resolver has returned.
C8_Witness ==
    configConnection = "configured" /\ ~forceEntityOverwriting
        /\ pc = "set_steps"

\* C9: empty connection, forceEntityOverwriting not set, no service in the
\* catalog: construction ends with InvalidWorkflowJSONException and
\* set_steps() is never called.
C9_NoServiceFailsConstruction ==
    lookupResult = "not_found" =>
        /\ configConnection = "empty" /\ ~forceEntityOverwriting
        /\ pc = "ctor_raised"
        /\ callerExc = "InvalidWorkflowJSONException"
        /\ ~stepsBuilt /\ steps = <<>>

\* C9 witness: the lookup returned no service and construction has raised.
C9_Witness == lookupResult = "not_found" /\ pc = "ctor_raised"

InTryBody == pc \in {"source_next", "steps", "bulk_sink", "update_status"}

\* C11: when the Source has raised after yielding k records, each of the k
\* records has finished its walk over the step tuple (the first record step
\* has counted exactly k records), no further record is taken and no step
\* is running, BulkSink.run() was not called, the state is failed, and the
\* caller sees the Source's exception only once stop() has run to its end.
\* At every moment at most the last record yielded is still in the chain.
C11_SourceFailureAfterKRecords ==
    /\ sourceState = "raised" =>
          /\ escaped = "Source"
          /\ completedRecords = yielded
          /\ (Len(steps) > 0 /\ IsRecordStep(steps[1])) =>
                 scanned[1] + filtered[1] + failed[1] = yielded
          /\ ~InTryBody
          /\ stepIdx = 0 /\ processed_record = None
          /\ SumTo(bulkRuns, MaxSteps) = 0
          /\ (pc # "except") => pipelineState = "failed"
          /\ Finished => pc = "raised" /\ callerExc = "Source" /\ StopCompleted
          /\ ~Finished => callerExc = "none"
    /\ completedRecords = IF pc = "steps" THEN yielded - 1 ELSE yielded

\* C11 witness: the Source raised after two records, both went through a
\* Processor, and the caller got the exception after stop().
C11_Witness ==
    /\ sourceState = "raised" /\ yielded = 2 /\ completedRecords = 2
    /\ Len(steps) = 2 /\ steps[1] = "Processor" /\ steps[2] = "BulkSink"
    /\ scanned[1] = 2 /\ pc = "raised" /\ callerExc = "Source"
    /\ pipelineState = "failed"

\* C12: in every interleaving of the main thread and the timer thread, a
\* reporting callback runs only while the catalog client is open, no step
\* has been closed and stop() is not past its first statement; from the
\* moment timer.stop() has returned until execute() is over the timer thread
\* is joined, so stop() never returns with the timer still alive.
C12_TimerJoinedBeforeTeardown ==
    /\ timerThread = "reporting" =>
          /\ client = "open"
          /\ \A i \in Positions : closeCount[i] = 0
          /\ pc \notin {"stop_client", "stop_steps", "stop_done", "returned", "raised"}
    /\ (pc \in {"stop_client", "stop_steps", "stop_done"} \/ (Finished /\ tryEntered)) =>
          timerThread = "joined" /\ timerStops = 1
    /\ timerThread # "none" => timerTriggers = 1

\* C12 witness: the run is over, every step closed, the timer thread joined.
C12_Witness ==
    /\ pc = "returned" /\ timerThread = "joined" /\ Len(steps) = 2
    /\ \A i \in 1..2 : closeCount[i] = 1
    /\ client = "closed" /\ yielded = 2

\* The records a step has accounted for in its status.
Accounted(i) == scanned[i] + filtered[i] + failed[i]

\* The positions of the tuple whose step takes single records.
RecordSteps == {i \in 1..Len(steps) : IsRecordStep(steps[i])}

\* The nearest record step before position i, 0 when there is none.
PrevRecordStep(i) ==
    IF \E j \in RecordSteps : j < i
    THEN CHOOSE j \in RecordSteps : j < i /\ \A k \in RecordSteps : k < i => k <= j
    ELSE 0

\* The last record step of the tuple, 0 when there is none.
TerminalStep == PrevRecordStep(Len(steps) + 1)

\* C13 as stated: after a run that returned normally, the terminal step of
\* the chain has accounted for every record the Source yielded, whatever
\* the steps before it returned.
C13_TerminalStepAccountsForAll ==
    (pc = "returned" /\ TerminalStep # 0) => Accounted(TerminalStep) = yielded

\* C13 as amended: whenever no record is inside the chain, and so after a
\* run that returned normally, the first record step has accounted for
\* every record yielded, and every later record step for exactly the
\* records that the record step before it passed on (its scanned count):
\* a record for which an upstream step returned None is counted by no
\* step after that one.
C13_EachStepAccountsForItsInput ==
    (stepsBuilt /\ pc # "steps") =>
        \A i \in RecordSteps :
            Accounted(i) = IF PrevRecordStep(i) = 0 THEN yielded
                           ELSE scanned[PrevRecordStep(i)]

\* C13 witness: a run of two records returned; the Processor passed one on
\* and returned None for the other, which the Sink never saw.
C13_Witness ==
    /\ pc = "returned" /\ yielded = 2
    /\ Len(steps) = 2 /\ steps[1] = "Processor" /\ steps[2] = "Sink"
    /\ scanned[1] = 1 /\ filtered[1] = 1 /\ Accounted(2) = 1

\* Failures and records accounted for, over all steps of the tuple.
TotalFailed == SumTo(failed, MaxSteps)
TotalProcessed == SumTo(scanned, MaxSteps) + SumTo(filtered, MaxSteps) + TotalFailed

ScenarioRan ==
    /\ pc = "returned" /\ yielded = 10 /\ failureTolerance = 10
    /\ steps[1] = "Processor" /\ failed[1] = 2 /\ filtered[1] = 0
    /\ TotalFailed = 2 /\ SumTo(filtered, MaxSteps) = 0

C16_RunningThenTerminalForGood ==
    /\ pc = "new" => pipelineState = "none"
    /\ (pc \in {"resolve", "set_steps", "constructed", "ctor_raised"} \/ InTryBody
            \/ (Finished /\ ~tryEntered))
           => pipelineState = "running" /\ firstTerminal = "none"
    /\ firstTerminal # "none" => pipelineState = firstTerminal
    /\ firstTerminal = "none" => pipelineState \in {"none", "running"}
    /\ (pc = "finally" \/ InStop \/ (Finished /\ tryEntered)) => firstTerminal # "none"

\* C16 witness: the final status update raised, the state went from running
\* to failed, a step's close() raised in stop(), and the state is still the
\* first terminal one when the call is over.
C16_Witness ==
    /\ pc = "raised" /\ escaped = "StatusUpdate" /\ firstCloseRaised # 0
    /\ firstTerminal = "failed" /\ pipelineState = "failed"

\* C17: every read of run_id returns the value of the first read, which is
\* the text of config.pipelineRunId when the configuration supplies one
\* (uuid4 is then never called), and otherwise the text of the UUID of the
\* one and only call of uuid4, made at the first read.
C17_RunIdFixed ==
    /\ runIdReads = 0 => run_id = None /\ uuidCalls = 0
    /\ runIdReads > 0 =>
          /\ lastRunIdRead = firstRunIdRead
          /\ run_id = firstRunIdRead
          /\ pipelineRunId # None =>
                 firstRunIdRead = Str(pipelineRunId) /\ uuidCalls = 0
          /\ pipelineRunId = None =>
                 firstRunIdRead = Str(Uuid4(1)) /\ uuidCalls = 1

\* C17 witness: with no identifier in the configuration, run_id was read as
\* often as the bound allows, the last time after execute() returned.
C17_Witness ==
    /\ pipelineRunId = None /\ runIdReads = MaxRunIdReads /\ pc = "returned"
    /\ uuidCalls = 1 /\ lastRunIdRead = Str(Uuid4(1))

\* C18: the catalog client is closed only after timer.stop() has returned,
\* a step is closed only after the timer is stopped, the client is closed
\* and every step before it in the tuple has been closed; while the close
\* loop is at position i, exactly the steps before i have been closed.
C18_StopOrder ==
    /\ client = "closed" => timerStops = 1 /\ stopCalls = 1
    /\ timerStops > 0 => stopCalls = 1
    /\ \A i \in Positions :
          closeCount[i] > 0 =>
              /\ i <= Len(steps)
              /\ timerStops = 1 /\ client = "closed"
              /\ \A j \in 1..(i - 1) : closeCount[j] > 0
    /\ pc = "stop_steps" =>
          \A i \in 1..Len(steps) : closeCount[i] = IF i < closeIdx THEN 1 ELSE 0

\* C18 witness: inside stop(), the timer is stopped, the client closed, the
\* first step closed and the second one not yet.
C18_Witness ==
    /\ pc = "stop_steps" /\ closeIdx = 2 /\ Len(steps) = 2
    /\ timerStops = 1 /\ client = "closed"
    /\ closeCount[1] = 1 /\ closeCount[2] = 0

\* C19: when the lookup returned a service (which needs an empty connection
\* and forceEntityOverwriting unset), the service's connection is in the
\* configuration from that moment on, so before set_steps() and through
\* execute() and stop(), construction does not fail, and the catalog was
\* queried exactly once; no workflow queries it more than once, none before
\* the resolver, and after the resolver the connection is the one the
\* resolver left.
C19_ResolvedOnceBeforeSetSteps ==
    /\ lookupResult = "found" =>
          /\ configConnection = "empty" /\ ~forceEntityOverwriting
          /\ serviceConnection = "fromCatalog"
          /\ getByNameCalls = 1
          /\ pc \notin {"new", "resolve", "ctor_raised"}
    /\ getByNameCalls <= 1
    /\ pc \in {"new", "resolve"} =>
          getByNameCalls = 0 /\ ~stepsBuilt /\ serviceConnection = configConnection
    /\ lookupResult # "found" => serviceConnection = configConnection
    /\ stepsBuilt => pc \notin {"new", "resolve", "set_steps", "ctor_raised"}

\* C19 witness: the lookup found the service and execute() has returned
\* after two records, the connection still the catalog's.
C19_Witness ==
    /\ lookupResult = "found" /\ pc = "returned" /\ yielded = 2
    /\ serviceConnection = "fromCatalog" /\ getByNameCalls = 1

\* C20: the catalog is contacted only for an empty connection with
\* forceEntityOverwriting unset; with forceEntityOverwriting set and an
\* empty connection it is never contacted, construction does not fail, the
\* connection stays empty, and after the resolver comes set_steps().
C20_ForceSkipsResolution ==
    /\ getByNameCalls > 0 => configConnection = "empty" /\ ~forceEntityOverwriting
    /\ (configConnection = "empty" /\ forceEntityOverwriting) =>
          /\ getByNameCalls = 0
          /\ lookupResult = "none"
          /\ serviceConnection = "empty"
          /\ pc # "ctor_raised"
          /\ pc \notin {"new", "resolve"} => (pc = "set_steps" \/ stepsBuilt)

\* C20 witness: forceEntityOverwriting set, connection empty, the steps built.
C20_Witness ==
    /\ configConnection = "empty" /\ forceEntityOverwriting
    /\ pc = "constructed" /\ stepsBuilt /\ serviceConnection = "empty"

\* The positions of the tuple that hold a BulkSink.
BulkSinks == {i \in 1..Len(steps) : steps[i] = "BulkSink"}

\* C21: run() is invoked on a BulkSink only if no BulkSink stands before it
\* in the tuple, and then only after the Source is exhausted; a BulkSink
\* behind another one is never run, at any moment of the call, and when
\* execute() is over it has been closed once like every other step.
C21_OnlyFirstBulkSinkRuns ==
    /\ \A i \in BulkSinks :
          /\ (\E j \in BulkSinks : j < i) => bulkRuns[i] = 0
          /\ bulkRuns[i] > 0 => sourceState = "exhausted" /\ bulkRuns[i] = 1
    /\ (pc \in {"update_status", "returned"} /\ BulkSinks # {}) =>
          \E i \in BulkSinks : bulkRuns[i] = 1 /\ \A j \in BulkSinks : i <= j
    /\ (Finished /\ tryEntered) => \A i \in BulkSinks : closeCount[i] = 1

\* C21 witness: a tuple of two BulkSinks, the run returned, the first was
\* run, the second was not, both are closed.
C21_Witness ==
    /\ pc = "returned" /\ Len(steps) = 2 /\ BulkSinks = {1, 2}
    /\ bulkRuns[1] = 1 /\ bulkRuns[2] = 0
    /\ closeCount[1] = 1 /\ closeCount[2] = 1 /\ yielded = 2

RECURSIVE RecordStepsBelow(_)
RecordStepsBelow(i) ==
    IF i <= 1 THEN <<>>
    ELSE IF IsRecordStep(steps[i - 1])
         THEN Append(RecordStepsBelow(i - 1), i - 1)
         ELSE RecordStepsBelow(i - 1)

\* C23: while the chain is at position i for the k-th record, the record in
\* flight is None or the k-th record marked by every record step below i,
\* in the order of the tuple and by no other step, only steps below i have
\* been run for it, and the k - 1 records before it have finished their walk;
\* outside the chain every record yielded has finished its walk, so the
\* Source is asked for the next record only then.
C23_RecordsAndStepsInOrder ==
    /\ pc = "steps" =>
          /\ stepIdx \in 1..Len(steps)
          /\ yielded >= 1 /\ completedRecords = yielded - 1
          /\ processed_record # None =>
                 processed_record = SourceRecord(yielded) \o RecordStepsBelow(stepIdx)
          /\ ranFor \subseteq {j \in RecordSteps : j < stepIdx}
          /\ processed_record # None => ranFor = {j \in RecordSteps : j < stepIdx}
    /\ pc # "steps" => stepIdx = 0 /\ completedRecords = yielded
    /\ (pc = "source_next" /\ processed_record # None) =>
          processed_record = SourceRecord(yielded) \o RecordStepsBelow(Len(steps) + 1)

\* C23 witness: the second record has passed the Processor and stands
\* before the Sink, with the first record's walk finished.
C23_Witness ==
    /\ pc = "steps" /\ stepIdx = 2 /\ yielded = 2 /\ completedRecords = 1
    /\ steps = <<"Processor", "Sink">>
    /\ processed_record = <<2, 1>>

\* The positions of the control flow that stand before a report of the
\* pipeline state: __init__ before line 104, the final status update, the
\* except clause.
BeforeReport == pc \in {"new", "update_status", "except"}

\* C24: whenever the catalog client is closed a terminal state has been
\* reported and is the state on record, and no statement that reports a
\* state is reached once metadata.close() has been called; the client is
\* closed only inside or after stop().
C24_FinalStateReportedBeforeClose ==
    /\ client = "closed" =>
          /\ firstTerminal \in TerminalStates
          /\ pipelineState = firstTerminal
          /\ ~BeforeReport
          /\ pc \in {"stop_steps", "stop_done", "returned", "raised"}
    /\ BeforeReport => client # "closed"
    /\ pc = "stop_client" => firstTerminal \in TerminalStates /\ client = "open"

\* C24 witness: stop() has just closed the client, with partial_success
\* reported before.
C24_Witness ==
    /\ pc = "stop_steps" /\ closeIdx = 1 /\ client = "closed"
    /\ firstTerminal = "partial_success" /\ pipelineState = "partial_success"

\* C25: when a call of execute() that entered its try block is over, every
\* step of the tuple has been closed, also when timer.stop() or
\* metadata.close() raised.
C25_StepsClosedDespiteStopFailure ==
    (Finished /\ tryEntered) => \A i \in 1..Len(steps) : closeCount[i] >= 1

\* The positions that have marked the record in flight.
MarksOf(rec) == {rec[k] : k \in 2..Len(rec)}

C27_FailedConstructionLeftRunning ==
    /\ pc = "ctor_raised" =>
          /\ lookupResult = "not_found" /\ getByNameCalls = 1
          /\ client = "open"
          /\ pipelineState = "running" /\ firstTerminal = "none"
          /\ stopCalls = 0 /\ timerCreated = 0 /\ timerStops = 0
          /\ ~stepsBuilt /\ ~tryEntered
          /\ \A i \in Positions : closeCount[i] = 0
    /\ (stopCalls > 0 \/ client = "closed") => stepsBuilt /\ tryEntered

\* C27 witness: the catalog returned no service and construction failed.
C27_Witness ==
    /\ pc = "ctor_raised" /\ configConnection = "empty"
    /\ client = "open" /\ pipelineState = "running" /\ stopCalls = 0

\* The project ids of the entries of project_ids that the filter lets pass,
\* among the first n entries.
RECURSIVE UnfilteredAmong(_, _, _)
UnfilteredAmong(ids, pattern, n) ==
    IF n = 0 THEN <<>>
    ELSE IF FilterByDatabase(pattern, ids[n])
         THEN UnfilteredAmong(ids, pattern, n - 1)
         ELSE Append(UnfilteredAmong(ids, pattern, n - 1), ids[n])

\* C28: the entries of project_ids are handled one by one in the order of
\* the list, each once; an entry is recorded as filtered exactly when the
\* filter matches it, and set_inspector is called for the other entries and
\* for no filtered one; while the consumer holds a yielded project, that
\* project is the last entry handled and client, engine and inspector are
\* the ones set for it; a project whose set_inspector raised is skipped,
\* and the generator ends only when every entry has been handled.
C28_ProjectsHandledInOrder ==
    bigquery # None =>
        LET b == bigquery
            n == Len(b.events)
        IN  /\ n <= Len(b.project_ids)
            /\ b.index = n
            /\ \A k \in 1..n :
                  /\ b.events[k][1] = b.project_ids[k]
                  /\ b.events[k][2] = "filtered" <=>
                         b.project_ids[k] \in b.databaseFilterPattern
                  /\ b.events[k][2] \in {"filtered", "yielded", "skipped"}
            /\ b.setInspectorCalls =
                   UnfilteredAmong(b.project_ids, b.databaseFilterPattern, n)
            /\ b.at = "consumer" =>
                  /\ n >= 1
                  /\ b.events[n] = <<b.project_ids[n], "yielded">>
                  /\ b.inspector = b.project_ids[n]
            /\ b.at = "done" => n = Len(b.project_ids)

\* C28 witness: of three projects the first was filtered, the second could
\* not be connected to, and the consumer holds the third.
C28_Witness ==
    /\ bigquery # None
    /\ bigquery.project_ids = <<1, 2, 3>>
    /\ bigquery.at = "consumer"
    /\ bigquery.events = <<<<1, "filtered">>, <<2, "skipped">>, <<3, "yielded">>>>
    /\ bigquery.inspector = 3

\* A close() of the BigquerySource has been called and is over.
Closed(n) ==
    /\ bigquery # None
    /\ bigquery.at = "idle"
    /\ bigquery.closeCalls >= n

\* C29 as stated: after one close() the credentials file is removed and
\* neither GOOGLE_CREDENTIALS nor GOOGLE_CLOUD_PROJECT is in the
\* environment; a second close() raises nothing and leaves the same state.
C29_CloseReleasesCredentials ==
    /\ Closed(1) =>
          /\ ~bigquery.closeRaised
          /\ ~osState.credentialsFile
          /\ GOOGLE_CREDENTIALS \notin osState.environ
          /\ GOOGLE_CLOUD_PROJECT \notin osState.environ
    /\ Closed(2) => osState = bigquery.afterFirstClose

\* C29 amended: after one close() GOOGLE_CLOUD_PROJECT is not in the
\* environment; with credentials given by value the credentials file is
\* removed and GOOGLE_CREDENTIALS is not in the environment, with
\* credentials given by path the entry and the file are left as they were;
\* no other entry is touched; a second close() raises nothing and leaves the
\* same state as the first.
C29_CloseReleasesTemporaryCredentials ==
    /\ Closed(1) =>
          /\ ~bigquery.closeRaised
          /\ GOOGLE_CLOUD_PROJECT \notin osState.environ
          /\ OtherEntry \in osState.environ <=>
                 OtherEntry \in bigquery.atInit.environ
          /\ IF bigquery.gcpConfig = "GcpCredentialsValues"
             THEN /\ ~osState.credentialsFile
                  /\ GOOGLE_CREDENTIALS \notin osState.environ
             ELSE /\ osState.credentialsFile = bigquery.atInit.credentialsFile
                  /\ GOOGLE_CREDENTIALS \in osState.environ <=>
                         GOOGLE_CREDENTIALS \in bigquery.atInit.environ
    /\ Closed(2) => osState = bigquery.afterFirstClose

\* C29 witness: a source with credentials given by value, whose temporary
\* file and both entries were there, has been closed twice.
C29_Witness ==
    /\ Closed(2)
    /\ bigquery.gcpConfig = "GcpCredentialsValues"
    /\ bigquery.atInit.environ =
           {GOOGLE_CLOUD_PROJECT, GOOGLE_CREDENTIALS, OtherEntry}
    /\ bigquery.atInit.credentialsFile
    /\ ~osState.credentialsFile
    /\ osState.environ = {OtherEntry}
    /\ ~bigquery.closeRaised

\* C30: every chart the loop of yield_dashboard_chart is done with is in
\* exactly one of scanned, filtered and failed: filtered, and without a
\* request, when the chart filter matches it; scanned when its request was
\* yielded; failed when its processing raised; and the generator ends only
\* when every chart of the list has been handled.
C30_EveryChartAccounted ==
    lightdash # None =>
        LET l == lightdash IN
        /\ \A chart \in 1..l.index :
              /\ l.charts[chart] = "filtered" =>
                    /\ chart \in l.status.filtered
                    /\ chart \notin l.requests
                    /\ chart \notin l.status.scanned \cup l.status.failed
              /\ l.charts[chart] = "ok" =>
                    /\ chart \in l.requests
                    /\ chart \in l.status.scanned
                    /\ chart \notin l.status.filtered \cup l.status.failed
              /\ l.charts[chart] = "raises" =>
                    /\ chart \in l.status.failed
                    /\ chart \notin l.status.scanned \cup l.status.filtered
        /\ l.at = "done" => l.index = Len(l.charts)

====
